---- MODULE Spec2Model ----
(***************************************************************************)
(* A model of the life-simulation engine: the uniform spatial grid         *)
(* (src/src/spatial_grid.rs), the neural controller (src/src/brain.rs) and *)
(* the world with its per-tick update (src/src/lib.rs).                    *)
(*                                                                         *)
(* Numbers.  The program computes in f64.  The model computes in integers: *)
(* a length is counted in tenths of a world unit, an energy in hundredths  *)
(* of an energy unit, so that every product the tick forms from the        *)
(* sampled controller outputs is exact.  A draw of Math::random() is a     *)
(* choice from a small set of sample values.                               *)
(***************************************************************************)
EXTENDS Integers, Sequences, FiniteSets, TLC

VARIABLES
    \* ---- SpatialGrid (spatial_grid.rs:1-7)
    cell_size, cols, rows, cells,
    \* the result of the last query, and a record of the calls made
    \* grid_call.held: the ids the buckets held when the call was made;
    \* grid_log: the inserts made since the last clear
    neighbors, grid_call, grid_log, grid_ops,
    \* ---- a Brain on its own (brain.rs:4-12), the Brain its last call
    \* returned, and a record of that call
    brain, child, brain_call, brain_ops,
    \* ---- Simulation (lib.rs:16-38)
    positions, angles, energies, brains, colors, voices,
    food, predators, rocks, mud, width, height,
    mutation_rate, predator_speed, reproduction_threshold,
    \* the channels of the sensing vector step hands to Brain::process
    sensing,
    \* the process has aborted on a panic
    aborted,
    \* a record of the calls: how many, the last one, what the last step() did
    \* to which slot, and the energies that step() began with
    calls, ticks, last_call, events, before,
    \* the last step() iteration by iteration, and the argument of the last
    \* set_food_count
    trace, last_count

gridVars == <<cell_size, cols, rows, cells, neighbors, grid_call, grid_log, grid_ops>>

brainVars == <<brain, child, brain_call, brain_ops>>

simVars == <<positions, angles, energies, brains, colors, voices, food, predators,
             rocks, mud, width, height, mutation_rate, predator_speed,
             reproduction_threshold, sensing, aborted, calls, ticks, last_call, events,
             before, trace, last_count>>

vars == <<gridVars, brainVars, simVars>>

-----------------------------------------------------------------------------
(* Arithmetic helpers: the f64 operations the code uses, on integers.      *)

\* f64::floor of a quotient with a positive divisor
FloorDiv(a, b) == a \div b

\* f64::ceil of a quotient with a positive divisor
CeilDiv(a, b) == -((-a) \div b)

I32_MAX == 2147483647

\* `f as usize`: a float-to-integer cast saturates, so a negative value (and
\* NaN) is 0; the upper end, 2^64 - 1, is beyond every coordinate of the model
AsUsize(n) == IF n < 0 THEN 0 ELSE n

\* `f as i32`: saturates at both ends
AsI32(n) == IF n < -I32_MAX - 1 THEN -I32_MAX - 1 ELSE IF n > I32_MAX THEN I32_MAX ELSE n

Min(a, b) == IF a < b THEN a ELSE b
Max(a, b) == IF a > b THEN a ELSE b
Abs(a) == IF a < 0 THEN -a ELSE a

-----------------------------------------------------------------------------
(* SpatialGrid                                                             *)

\* sample worlds and sample coordinates of the grid specification
GridWidth == 40
GridHeight == 20
GridCell == 10
MaxGridOps == 2
MaxId == 1

GridXs == {-5, 5, 15, GridWidth - 5, GridWidth + 5}
GridYs == {-5, 5, 15}
GridIds == 0..MaxId

\* SpatialGrid::new
GridNew(w, h, cs) ==
    LET c == AsUsize(CeilDiv(w, cs))
        r == AsUsize(CeilDiv(h, cs))
    IN  [cell_size |-> cs, cols |-> c, rows |-> r,
         cells |-> [k \in 0..(c * r - 1) |-> <<>>]]

\* clear that leaves the first bucket as it is
ClearCellsButFirst(cs) == [k \in DOMAIN cs |-> IF k = 0 THEN cs[k] ELSE <<>>]

\* SpatialGrid::clear
ClearCells(cs) == [k \in DOMAIN cs |-> <<>>]

\* the column (row) insert computes from a coordinate
InsertIndex(x) == AsUsize(FloorDiv(x, cell_size))

\* SpatialGrid::insert
InsertCells(cs, x, y, index) ==
    LET col == InsertIndex(x)
        row == InsertIndex(y)
    IN  IF col < cols /\ row < rows
        THEN [cs EXCEPT ![row * cols + col] = Append(@, index)]
        ELSE cs

\* the column (row) of a query, were the quotient rounded up
QueryIndexCeil(x) == AsI32(CeilDiv(x, cell_size))

\* the column (row) query computes from a coordinate
QueryIndex(x) == AsI32(FloorDiv(x, cell_size))

\* query's loops run over 0..=1
QueryOffsetsFromZero == <<0, 1>>

\* the offsets query visits, in the order of its two loops
QueryOffsets == <<-1, 0, 1>>

RECURSIVE QueryFrom(_, _, _, _)
\* the rest of query's double loop from the k-th of its 9 iterations on
QueryFrom(cs, col_idx, row_idx, k) ==
    IF k > Len(QueryOffsets) * Len(QueryOffsets) THEN <<>>
    ELSE LET dy == QueryOffsets[((k - 1) \div Len(QueryOffsets)) + 1]
             dx == QueryOffsets[((k - 1) % Len(QueryOffsets)) + 1]
             c == col_idx + dx
             r == row_idx + dy
             here == IF c >= 0 /\ c < cols /\ r >= 0 /\ r < rows
                     THEN cs[r * cols + c] ELSE <<>>
         IN  here \o QueryFrom(cs, col_idx, row_idx, k + 1)

\* SpatialGrid::query
Query(cs, x, y) == QueryFrom(cs, QueryIndex(x), QueryIndex(y), 1)

\* the number of ids the buckets hold
RECURSIVE HeldFrom(_, _)
HeldFrom(cs, k) == IF k \notin DOMAIN cs THEN 0 ELSE Len(cs[k]) + HeldFrom(cs, k + 1)
Held(cs) == HeldFrom(cs, 0)

GridInit ==
    /\ \E w \in {GridWidth, GridWidth - GridCell \div 2} :
          LET g == GridNew(w, GridHeight, GridCell)
          IN  /\ cell_size = g.cell_size
              /\ cols = g.cols
              /\ rows = g.rows
              /\ cells = g.cells
    /\ neighbors = <<>>
    /\ grid_call = [op |-> "new", x |-> 0, y |-> 0, id |-> 0, held |-> 0]
    /\ grid_log = {}
    /\ grid_ops = 0

GridIdle ==
    /\ cell_size = GridCell /\ cols = 0 /\ rows = 0 /\ cells = <<>>
    /\ neighbors = <<>>
    /\ grid_call = [op |-> "none", x |-> 0, y |-> 0, id |-> 0, held |-> 0]
    /\ grid_log = {}
    /\ grid_ops = 0

GridClear ==
    /\ grid_ops < MaxGridOps
    /\ cells' = ClearCells(cells)
    /\ grid_call' = [op |-> "clear", x |-> 0, y |-> 0, id |-> 0, held |-> Held(cells)]
    /\ grid_log' = {}
    /\ grid_ops' = grid_ops + 1
    /\ UNCHANGED <<cell_size, cols, rows, neighbors, brainVars, simVars>>

GridInsert ==
    /\ grid_ops < MaxGridOps
    /\ \E x \in GridXs, y \in GridYs, id \in GridIds :
          /\ cells' = InsertCells(cells, x, y, id)
          /\ grid_call' = [op |-> "insert", x |-> x, y |-> y, id |-> id,
                           held |-> Held(cells)]
          /\ grid_log' = grid_log \cup {<<x, y, id>>}
    /\ grid_ops' = grid_ops + 1
    /\ UNCHANGED <<cell_size, cols, rows, neighbors, brainVars, simVars>>

GridQuery ==
    /\ grid_ops < MaxGridOps
    /\ \E x \in GridXs, y \in GridYs :
          /\ neighbors' = Query(cells, x, y)
          /\ grid_call' = [op |-> "query", x |-> x, y |-> y, id |-> 0,
                           held |-> Held(cells)]
    /\ grid_ops' = grid_ops + 1
    /\ UNCHANGED <<cell_size, cols, rows, cells, grid_log, brainVars, simVars>>

GridNext == GridClear \/ GridInsert \/ GridQuery


-----------------------------------------------------------------------------
(* Brain                                                                   *)
(* A weight is counted in thousandths.  A draw of Math::random() is its    *)
(* value in thousandths, from RandomDraws.  The draws a call makes for the *)
(* elements of a vector are given by a pattern: the draw for the elements  *)
(* at odd places and the draw for the elements at even places.             *)

INPUTS == 13
HIDDEN == 8
OUTPUTS == 3

RandomDraws == {100, 500, 900}
Patterns == [odd : RandomDraws, even : RandomDraws]
At(p, k) == IF k % 2 = 1 THEN p.odd ELSE p.even

\* mutation rates, in tenths
MaxRate == 2
Rates == 0..MaxRate
MaxBrainOps == 1

\* the patterns that draw the same value at every place
ConstantPatterns == {p \in Patterns : p.odd = p.even}

\* (Math::random() * 2.0) - 1.0, in thousandths
Signed(r) == r * 2 - 1000

\* Brain::new
BrainNew(p) ==
    [weights_input  |-> [k \in 1..(INPUTS * HIDDEN) |-> Signed(At(p, k))],
     weights_output |-> [k \in 1..(HIDDEN * OUTPUTS) |-> Signed(At(p, k))],
     biases         |-> [k \in 1..(HIDDEN + OUTPUTS) |-> Signed(At(p, k))],
     last_inputs    |-> [k \in 1..INPUTS |-> 0],
     last_outputs   |-> [k \in 1..OUTPUTS |-> 0]]

\* each element is the mean of the parents' elements
MixBlended(a, b, p) ==
    [k \in 1..Min(Len(a), Len(b)) |-> (a[k] + b[k]) \div 2]

\* the closure mix of Brain::crossover: zip stops at the shorter vector
Mix(a, b, p) ==
    [k \in 1..Min(Len(a), Len(b)) |-> IF At(p, k) > 500 THEN a[k] ELSE b[k]]

\* Brain::crossover: the child is a Brain::new() whose three vectors are
\* replaced, so of the fresh Brain only the zeroed buffers remain
Crossover(self, partner, p) ==
    [BrainNew(p) EXCEPT
        !.weights_input  = Mix(self.weights_input, partner.weights_input, p),
        !.weights_output = Mix(self.weights_output, partner.weights_output, p),
        !.biases         = Mix(self.biases, partner.biases, p)]

MUTATION_CHANCE == 200

\* the perturbation is added whole, not scaled by the rate
MutateValueUnscaled(v, sel, dlt, rate) ==
    IF sel < MUTATION_CHANCE THEN v + Signed(dlt) ELSE v

\* one element of mutate_vec: rate is in tenths, so the product is divided by 10
MutateValue(v, sel, dlt, rate) ==
    IF sel < MUTATION_CHANCE THEN v + (Signed(dlt) * rate) \div 10 ELSE v

\* the closure mutate_vec of Brain::mutate
MutateVec(vals, rate, sel, dlt) ==
    [k \in 1..Len(vals) |-> MutateValue(vals[k], At(sel, k), At(dlt, k), rate)]

\* Brain::mutate
Mutate(self, rate, sel, dlt) ==
    [self EXCEPT
        !.weights_input  = MutateVec(self.weights_input, rate, sel, dlt),
        !.weights_output = MutateVec(self.weights_output, rate, sel, dlt),
        !.biases         = MutateVec(self.biases, rate, sel, dlt)]

\* Brain::process indexes inputs[j] for j in 0..13: a shorter slice is an
\* index out of bounds, which panics
ProcessPanics(inputs) == Len(inputs) < INPUTS

\* Brain::process up to its panic: last_inputs is assigned first
ProcessPanicked(self, inputs) == [self EXCEPT !.last_inputs = inputs]

\* Brain::process that returns outputs (the tanh values are not computed from
\* the weights: any output vector is a possible result)
Process(self, inputs, outputs) ==
    [self EXCEPT !.last_inputs = inputs, !.last_outputs = outputs]

BrainInit ==
    /\ \E p \in Patterns : brain = BrainNew(p)
    /\ child = brain
    /\ brain_call = [op |-> "new", rate |-> 0, sel |-> [odd |-> 500, even |-> 500],
                     dlt |-> [odd |-> 500, even |-> 500]]
    /\ brain_ops = 0

BrainIdle ==
    /\ brain = BrainNew([odd |-> 500, even |-> 500])
    /\ child = brain
    /\ brain_call = [op |-> "none", rate |-> 0, sel |-> [odd |-> 500, even |-> 500],
                     dlt |-> [odd |-> 500, even |-> 500]]
    /\ brain_ops = 0

BrainMutate ==
    /\ brain_ops < MaxBrainOps
    /\ \E rate \in Rates, sel \in Patterns, dlt \in ConstantPatterns :
          /\ child' = Mutate(brain, rate, sel, dlt)
          /\ brain_call' = [op |-> "mutate", rate |-> rate, sel |-> sel, dlt |-> dlt]
    /\ brain_ops' = brain_ops + 1
    /\ UNCHANGED <<brain, gridVars, simVars>>

BrainCrossover ==
    /\ brain_ops < MaxBrainOps
    /\ \E partner \in ConstantPatterns, p \in Patterns :
          /\ child' = Crossover(brain, BrainNew(partner), p)
          /\ brain_call' = [op |-> "crossover", rate |-> 0, sel |-> p, dlt |-> partner]
    /\ brain_ops' = brain_ops + 1
    /\ UNCHANGED <<brain, gridVars, simVars>>

\* the caller keeps the returned Brain in place of the old one, as step does
\* with a reborn slot (lib.rs:334-336)
BrainKeep ==
    /\ brain_call.op \in {"mutate", "crossover"}
    /\ child # brain
    /\ brain' = child
    /\ brain_call' = [brain_call EXCEPT !.op = "keep"]
    /\ UNCHANGED <<child, brain_ops, gridVars, simVars>>

BrainNext == BrainMutate \/ BrainCrossover \/ BrainKeep

-----------------------------------------------------------------------------
(* Simulation: the world                                                   *)
(* Lengths are in tenths of a world unit, energies in hundredths, the      *)
(* mutation rate in tenths, an angle in fifths of a radian (one unit is    *)
(* TURN_SPEED), cos, sin and the channels in thousandths.  The parallel    *)
(* arrays                                                                  *)
(* are functions on 0..n-1, as the code indexes them.                      *)

\* constants.rs
STARTING_ENERGY == 10000
FOOD_ENERGY == 4000
ENERGY_CAP == 20000
WARRIOR_THRESHOLD == 15000
BATTLE_COST == 5000
EAT_RADIUS == 100
PREDATOR_KILL_RADIUS == 150
AGENT_SPEED_MODIFIER == 15
TURN_SPEED == 1
BASE_MUTATION_RATE == 1
\* MOVE_COST 0.2: hundredths of energy per tenth of length
MOVE_COST == 2

\* literals of lib.rs
PREDATOR_SPEED == 22
REPRODUCTION_THRESHOLD == 6000
SEPARATION_RADIUS == 300
SEPARATION_PUSH == 8
VOICE_COST == 10
DEAD_ENERGY == -1000
NO_PARENT_ENERGY == -100
TOURNAMENT_DRAWS == 5
\* 9999.0, the distance the scans for food, predators and friends start from
FAR == 99990
HEARING_RADIUS == 1000
FRIEND_SCALE == 2000
WHISKER_LEN == 500
\* cos(0.78) and sin(0.78), the whiskers to the left and to the right
WHISKER_COS == 711
WHISKER_SIN == 703
OFFSPRING_ENERGY == 6000
PARENT_COST == 2000
REBORN_ENERGY == 10000
ROCK_MIN_RADIUS == 200
ROCK_RADIUS_SPAN == 300
MUD_MIN_RADIUS == 400
MUD_RADIUS_SPAN == 600

color_palette == <<"#ff00cc", "#ccff00", "#00ccff", "#ffcc00">>

\* the sizes of the model's world (AGENT_COUNT, FOOD_COUNT, PREDATOR_COUNT and
\* the 15 rocks and 10 mud patches of Simulation::new are far larger)
NAgents == 3
NFood == 1
NPredators == 1
NRocks == 2
NMud == 1
WorldWidth == 1000
WorldHeight == 800
\* the calls of the control surface a behaviour makes, and those of step()
MaxCalls == 3
MaxTicks == 2

\* draws of Math::random(), in thousandths, for a point of the world
PointDraws == {<<0, 0>>, <<500, 500>>}
\* for the agents of Simulation::new, by place, and for its predators
AgentDraws == [odd |-> <<0, 0>>, even |-> <<500, 500>>]
PredatorDraws == {<<0, 0>>, <<500, 500>>}
\* for a respawned food item or predator and for a fresh agent
RespawnDraws == {<<500, 500>>}
\* Math::random() * 6.28 for the k-th agent: 0, 1.6, 3.2 or 4.8
AngleDraw(k) == 8 * (k % 4)
\* for the jitter of an offspring's position
JitterDraws == {<<0, 0>>}
\* for the k-th rock and mud patch: position and radius
RockDraw(k) == IF k % 2 = 0 THEN <<750, 500, 100>> ELSE <<500, 0, 0>>
MudDraw(k) == <<0, 0, 0>>
\* for the Brains of the world
NewDraw == [odd |-> 100, even |-> 900]
MixDraw == [odd |-> 900, even |-> 100]
SelDraw == [odd |-> 100, even |-> 500]
DltDraw == [odd |-> 900, even |-> 100]

\* the outputs Brain::process returns, sampled: <<turn, throttle, voice>>;
\* in one tick the slots at odd places return one sample, those at even
\* places the other
OutputSamples == {<<0, -1, 0>>, <<1, 1, 1>>, <<-1, 1, -1>>}
OutputPatterns == {p \in [odd : OutputSamples, even : OutputSamples] : p.odd # p.even}

\* the draws of a tournament, each the slot (Math::random() * total_agents)
\* as usize: the sequences that alternate between two slots
DrawSequences ==
    {[k \in 1..TOURNAMENT_DRAWS |-> IF k % 2 = 1 THEN a ELSE b]
        : a \in 0..(NAgents - 1), b \in 0..(NAgents - 1)}

\* values given to the setters
RateSamples == {0}
SpeedSamples == {500}
ThresholdSamples == {-500}
SizeSamples == {<<1000, 100>>}
FoodCounts == {0, NFood + 1}

\* Math::random() * extent
Scaled(r, extent) == (r * extent) \div 1000

\* (Math::random() * width, Math::random() * height)
RandomPoint(d, w, h) == <<Scaled(d[1], w), Scaled(d[2], h)>>

\* (Math::random() - 0.5) * 10.0, in tenths
Jitter(r) == (r - 500) \div 10

Sign(a) == IF a < 0 THEN -1 ELSE IF a > 0 THEN 1 ELSE 0

\* a product of thousandths brought back to the unit of its other factor
Milli(n) == Sign(n) * (Abs(n) \div 1000)

\* f64::cos and f64::sin of the angles -0.8, -0.6, ..., 6.4
CosTable ==
    <<697, 825, 921, 980, 1000, 980, 921, 825, 697, 540,
      362, 170, -29, -227, -416, -589, -737, -857, -942, -990,
      -998, -967, -897, -791, -654, -490, -307, -112, 87, 284,
      469, 635, 776, 886, 960, 997, 993>>
SinTable ==
    <<-717, -565, -389, -199, 0, 199, 389, 565, 717, 841,
      932, 985, 1000, 974, 909, 808, 675, 516, 335, 141,
      -58, -256, -443, -612, -757, -872, -952, -994, -996, -959,
      -883, -773, -631, -465, -279, -83, 117>>
Cos(a) == CosTable[a + 5]
Sin(a) == SinTable[a + 5]

\* the largest s with s * s <= n, for n in lo*lo .. hi*hi
RECURSIVE ISqrtIn(_, _, _)
ISqrtIn(n, lo, hi) ==
    IF lo >= hi THEN lo
    ELSE LET mid == (lo + hi + 1) \div 2
         IN  IF mid * mid <= n THEN ISqrtIn(n, mid, hi) ELSE ISqrtIn(n, lo, mid - 1)

\* f64::hypot, rounded down to a tenth
Hypot(dx, dy) == ISqrtIn(dx * dx + dy * dy, 0, Abs(dx) + Abs(dy))

\* hypot(dx, dy) < r, exactly
Within(dx, dy, r) == dx * dx + dy * dy < r * r

\* (d / dist) * mag, rounded toward zero
Along(d, dist, mag) == Sign(d) * ((Abs(d) * mag) \div dist)

VecLen(v) == Cardinality(DOMAIN v)

\* Vec::push
Push(v, x) == [k \in 0..VecLen(v) |-> IF k < VecLen(v) THEN v[k] ELSE x]

\* Vec::truncate
Truncate(v, n) == [k \in 0..(Min(n, VecLen(v)) - 1) |-> v[k]]

\* the point lies inside one of the circles
InsideAny(circles, x, y) ==
    \E k \in DOMAIN circles :
       Within(x - circles[k][1], y - circles[k][2], circles[k][3])

\* the wall clamp of step
Clamp(v, hi) == LET a == IF v < 0 THEN 0 ELSE v IN IF a > hi THEN hi ELSE a

\* the sensing vector step assembles (lib.rs:256-266), by channel
SensingChannels ==
    <<"food_dist", "food_sin", "pred_dist", "pred_sin", "energy", "friend_dist",
      "wall_l", "wall_c", "wall_r", "hearing", "in_mud">>

\* the sensing vector with the two cosine channels brain.rs:20 names
AgreedChannels == SensingChannels \o <<"food_cos", "pred_cos">>

\* the arrays of w that a sensor or an update reads and writes
Snapshot(w) ==
    [positions |-> w.positions, voices |-> w.voices, energies |-> w.energies,
     colors |-> w.colors, food |-> w.food, predators |-> w.predators]

\* the record of a step() that begins in the arrays of w
TraceFrom(w) == [start |-> Snapshot(w), predators |-> <<>>, agents |-> <<>>]

\* the fields of Simulation that step writes, as one record
World ==
    LET fields == [positions |-> positions, voices |-> voices, energies |-> energies,
                   colors |-> colors, food |-> food, predators |-> predators]
    IN  [positions |-> positions, angles |-> angles, energies |-> energies,
         brains |-> brains, colors |-> colors, voices |-> voices,
         food |-> food, predators |-> predators,
         aborted |-> FALSE, events |-> {}, trace |-> TraceFrom(fields)]

\* the index of the point nearest to (x, y) among those of `among`: the scans
\* of step keep the first of several equally near (a strict <), and start from
\* a distance (9999.0, 999999.0) beyond every distance of the model's world
Nearest(points, among, x, y) ==
    LET D2(k) == (points[k][1] - x) * (points[k][1] - x)
                 + (points[k][2] - y) * (points[k][2] - y)
    IN  CHOOSE k \in among :
           \A m \in among : D2(k) < D2(m) \/ (D2(k) = D2(m) /\ k <= m)

\* ---- 1. UPDATE PREDATORS

\* the separation push on predator i from the predators k, k+1, ...
RECURSIVE SeparationFrom(_, _, _)
SeparationFrom(preds, i, k) ==
    IF k >= VecLen(preds) THEN <<0, 0>>
    ELSE LET rest == SeparationFrom(preds, i, k + 1)
             sx == preds[i][1] - preds[k][1]
             sy == preds[i][2] - preds[k][2]
             sep_dist == Hypot(sx, sy)
         IN  IF i # k /\ Within(sx, sy, SEPARATION_RADIUS) /\ (sx # 0 \/ sy # 0)
             THEN <<Along(sx, sep_dist, SEPARATION_PUSH) + rest[1],
                    Along(sy, sep_dist, SEPARATION_PUSH) + rest[2]>>
             ELSE rest

\* the pursuit displacement, were the agents with energy <= 0 targets too
PursuitOfAny(w, px, py) ==
    LET target == w.positions[Nearest(w.positions, DOMAIN w.positions, px, py)]
        dx == target[1] - px
        dy == target[2] - py
        dist == Hypot(dx, dy)
    IN  IF dx # 0 \/ dy # 0
        THEN <<Along(dx, dist, predator_speed), Along(dy, dist, predator_speed)>>
        ELSE <<dx, dy>>

\* the pursuit displacement of a predator at (px, py)
Pursuit(w, px, py) ==
    LET living == {j \in DOMAIN w.positions : w.energies[j] > 0}
        target == IF living = {} THEN <<px, py>>
                  ELSE w.positions[Nearest(w.positions, living, px, py)]
        dx == target[1] - px
        dy == target[2] - py
        dist == Hypot(dx, dy)
    IN  IF dx # 0 \/ dy # 0
        THEN <<Along(dx, dist, predator_speed), Along(dy, dist, predator_speed)>>
        ELSE <<dx, dy>>

\* one iteration of the predator loop
MovePredator(w, i) ==
    LET p == w.predators[i]
        pursuit == Pursuit(w, p[1], p[2])
        push == SeparationFrom(w.predators, i, 0)
        new_px == p[1] + pursuit[1] + push[1]
        new_py == p[2] + pursuit[2] + push[2]
        hit_rock == InsideAny(rocks, new_px, new_py)
        at == IF hit_rock THEN p ELSE <<new_px, new_py>>
        to == <<Clamp(at[1], width), Clamp(at[2], height)>>
    IN  [w EXCEPT !.predators[i] = to,
                  !.trace.predators =
                      Append(@, [from |-> p, pursuit |-> pursuit, push |-> push,
                                 candidate |-> <<new_px, new_py>>,
                                 hit_rock |-> hit_rock, to |-> to])]

RECURSIVE PredatorsFrom(_, _)
PredatorsFrom(w, i) ==
    IF i >= VecLen(w.predators) THEN w ELSE PredatorsFrom(MovePredator(w, i), i + 1)

\* ---- 2. UPDATE AGENTS

\* a ratio a / b capped at 1.0 (f64::min), in thousandths
Capped(a, b) == Min((a * 1000) \div b, 1000)

\* the bearing channels of a point at offset (dx, dy) for the heading a:
\* <<sin, cos>> of atan2(dy, dx) - a, in thousandths (atan2(0, 0) is 0)
Bearing(dx, dy, a) ==
    LET dist == Hypot(dx, dy)
        ux == IF dx = 0 /\ dy = 0 THEN 1000 ELSE Along(dx, dist, 1000)
        uy == IF dx = 0 /\ dy = 0 THEN 0 ELSE Along(dy, dist, 1000)
    IN  <<Milli(uy * Cos(a) - ux * Sin(a)), Milli(ux * Cos(a) + uy * Sin(a))>>

\* the closure check_obstacle: side is -1, 0, 1 for the offsets -0.78, 0, 0.78
CheckObstacle(w, i, side) ==
    LET a == w.angles[i]
        c == IF side = 0 THEN Cos(a)
             ELSE Milli(Cos(a) * WHISKER_COS - side * Sin(a) * WHISKER_SIN)
        n == IF side = 0 THEN Sin(a)
             ELSE Milli(Sin(a) * WHISKER_COS + side * Cos(a) * WHISKER_SIN)
        rx == w.positions[i][1] + Milli(c * WHISKER_LEN)
        ry == w.positions[i][2] + Milli(n * WHISKER_LEN)
    IN  IF rx < 0 \/ rx > width \/ ry < 0 \/ ry > height \/ InsideAny(rocks, rx, ry)
        THEN 1000 ELSE 0

\* the hearing loop from slot j on: the sum of voice * (1 - dist / 100)
RECURSIVE HearingFrom(_, _, _)
HearingFrom(w, i, j) ==
    IF j >= VecLen(w.positions) THEN 0
    ELSE LET dx == w.positions[j][1] - w.positions[i][1]
             dy == w.positions[j][2] - w.positions[i][2]
         IN  (IF i # j /\ Within(dx, dy, HEARING_RADIUS)
              THEN w.voices[j] * (HEARING_RADIUS - Hypot(dx, dy)) ELSE 0)
             + HearingFrom(w, i, j + 1)

\* SENSORS and WHISKERS: what they find for slot i
Sense(w, i) ==
    LET my == w.positions[i]
        fi == IF VecLen(w.food) = 0 THEN 0
              ELSE Nearest(w.food, DOMAIN w.food, my[1], my[2])
        fd == IF VecLen(w.food) = 0 THEN <<0, 0>>
              ELSE <<w.food[fi][1] - my[1], w.food[fi][2] - my[2]>>
        pi == IF VecLen(w.predators) = 0 THEN 0
              ELSE Nearest(w.predators, DOMAIN w.predators, my[1], my[2])
        pd == IF VecLen(w.predators) = 0 THEN <<0, 0>>
              ELSE <<w.predators[pi][1] - my[1], w.predators[pi][2] - my[2]>>
        others == DOMAIN w.positions \ {i}
        ai == IF others = {} THEN i ELSE Nearest(w.positions, others, my[1], my[2])
    IN  [closest_food_index |-> fi,
         closest_food_dist |-> IF VecLen(w.food) = 0 THEN FAR ELSE Hypot(fd[1], fd[2]),
         food_near |-> VecLen(w.food) > 0 /\ Within(fd[1], fd[2], EAT_RADIUS),
         food_bearing |-> IF VecLen(w.food) = 0 THEN <<0, 1000>>
                          ELSE Bearing(fd[1], fd[2], w.angles[i]),
         closest_pred_index |-> pi,
         closest_pred_dist |-> IF VecLen(w.predators) = 0 THEN FAR
                               ELSE Hypot(pd[1], pd[2]),
         pred_near |-> VecLen(w.predators) > 0
                       /\ Within(pd[1], pd[2], PREDATOR_KILL_RADIUS),
         pred_bearing |-> IF VecLen(w.predators) = 0 THEN <<0, 1000>>
                          ELSE Bearing(pd[1], pd[2], w.angles[i]),
         closest_friend_dist |->
             IF others = {} THEN FAR
             ELSE Hypot(w.positions[ai][1] - my[1], w.positions[ai][2] - my[2]),
         hearing_vol |-> HearingFrom(w, i, 0),
         in_mud |-> InsideAny(mud, my[1], my[2])]

\* one channel of the sensing vector, in thousandths
Channel(w, i, s, name) ==
    CASE name = "food_dist"   -> Capped(s.closest_food_dist, width)
      [] name = "food_sin"    -> s.food_bearing[1]
      [] name = "food_cos"    -> s.food_bearing[2]
      [] name = "pred_dist"   -> Capped(s.closest_pred_dist, width)
      [] name = "pred_sin"    -> s.pred_bearing[1]
      [] name = "pred_cos"    -> s.pred_bearing[2]
      [] name = "energy"      -> w.energies[i] \div 10
      [] name = "friend_dist" -> Capped(s.closest_friend_dist, FRIEND_SCALE)
      [] name = "wall_l"      -> CheckObstacle(w, i, -1)
      [] name = "wall_c"      -> CheckObstacle(w, i, 0)
      [] name = "wall_r"      -> CheckObstacle(w, i, 1)
      [] name = "hearing"     -> Min(s.hearing_vol, 1000)
      [] name = "in_mud"      -> IF s.in_mud THEN 1000 ELSE 0

\* the array `inputs` of step
Inputs(w, i, s) == [k \in 1..Len(sensing) |-> Channel(w, i, s, sensing[k])]

\* PROCESS BRAIN, PHYSICS and ENERGY COST for the outputs o
Moved(w, i, s, o) ==
    LET my == w.positions[i]
        voice == Max(o[3], 0)
        full == (o[2] + 1) * AGENT_SPEED_MODIFIER
        speed == IF s.in_mud THEN (full * 3) \div 10 ELSE full
        angle == w.angles[i] + o[1] * TURN_SPEED
        new_x == my[1] + Milli(Cos(angle) * speed)
        new_y == my[2] + Milli(Sin(angle) * speed)
        hit_rock == InsideAny(rocks, new_x, new_y)
        at == IF hit_rock THEN my ELSE <<new_x, new_y>>
        move == speed * MOVE_COST
        cost == (IF s.in_mud THEN move * 3 ELSE move) + voice * VOICE_COST
        to == <<Clamp(at[1], width), Clamp(at[2], height)>>
    IN  [w EXCEPT !.brains[i] = Process(@, Inputs(w, i, s), o),
                  !.voices[i] = voice,
                  !.angles[i] = angle,
                  !.positions[i] = to,
                  !.energies[i] = @ - cost,
                  !.events = @ \cup (IF hit_rock THEN {<<"blocked", i>>} ELSE {}),
                  !.trace.agents =
                      Append(@, [slot |-> i, seen |-> Snapshot(w),
                                 food_near |-> s.food_near,
                                 food_index |-> s.closest_food_index,
                                 pred_near |-> s.pred_near,
                                 pred_index |-> s.closest_pred_index,
                                 cost |-> cost, candidate |-> <<new_x, new_y>>,
                                 hit_rock |-> hit_rock, to |-> to,
                                 fed |-> w.energies[i] - cost,
                                 fight |-> "none", fought |-> w.energies[i] - cost,
                                 rebirth |-> "none", parents |-> <<0, 0>>,
                                 selected |-> <<0, 0>>,
                                 threshold |-> reproduction_threshold,
                                 after |-> Snapshot(w)])]

\* FOOD, were an eaten item removed from the Vec instead of relocated
FedRemoving(w, i, s) ==
    IF s.food_near
    THEN {[w EXCEPT !.energies[i] = Min(@ + FOOD_ENERGY, ENERGY_CAP),
                    !.food = [k \in 0..(VecLen(w.food) - 2) |->
                                IF k < s.closest_food_index THEN w.food[k]
                                ELSE w.food[k + 1]],
                    !.events = @ \cup {<<"ate", i, s.closest_food_index>>}]}
    ELSE {w}

\* FOOD, were a meal to fill the agent up to the cap
FedToCap(w, i, s) ==
    IF s.food_near
    THEN {[w EXCEPT !.energies[i] = ENERGY_CAP,
                    !.food[s.closest_food_index] = RandomPoint(d, width, height),
                    !.events = @ \cup {<<"ate", i, s.closest_food_index>>},
                    !.trace.agents[Len(w.trace.agents)].fed = ENERGY_CAP]
            : d \in RespawnDraws}
    ELSE {w}

\* FOOD
Fed(w, i, s) ==
    IF s.food_near
    THEN {[w EXCEPT !.energies[i] = Min(@ + FOOD_ENERGY, ENERGY_CAP),
                    !.food[s.closest_food_index] = RandomPoint(d, width, height),
                    !.events = @ \cup {<<"ate", i, s.closest_food_index>>},
                    !.trace.agents[Len(w.trace.agents)].fed =
                        Min(w.energies[i] + FOOD_ENERGY, ENERGY_CAP)]
            : d \in RespawnDraws}
    ELSE {w}

\* PREDATOR, were a won battle free of charge
FoughtUnpaid(w, i, s) ==
    IF s.pred_near
    THEN IF w.energies[i] > WARRIOR_THRESHOLD
         THEN {[w EXCEPT !.predators[s.closest_pred_index] = RandomPoint(d, width, height),
                         !.events = @ \cup {<<"won", i, s.closest_pred_index>>},
                         !.trace.agents[Len(w.trace.agents)].fight = "won",
                         !.trace.agents[Len(w.trace.agents)].fought = w.energies[i]]
                 : d \in RespawnDraws}
         ELSE {[w EXCEPT !.energies[i] = DEAD_ENERGY,
                         !.events = @ \cup {<<"killed", i>>},
                         !.trace.agents[Len(w.trace.agents)].fight = "killed",
                         !.trace.agents[Len(w.trace.agents)].fought = DEAD_ENERGY]}
    ELSE {[w EXCEPT !.trace.agents[Len(w.trace.agents)].fought = w.energies[i]]}

\* PREDATOR
Fought(w, i, s) ==
    IF s.pred_near
    THEN IF w.energies[i] > WARRIOR_THRESHOLD
         THEN {[w EXCEPT !.predators[s.closest_pred_index] = RandomPoint(d, width, height),
                         !.energies[i] = @ - BATTLE_COST,
                         !.events = @ \cup {<<"won", i, s.closest_pred_index>>},
                         !.trace.agents[Len(w.trace.agents)].fight = "won",
                         !.trace.agents[Len(w.trace.agents)].fought =
                             w.energies[i] - BATTLE_COST]
                 : d \in RespawnDraws}
         ELSE {[w EXCEPT !.energies[i] = DEAD_ENERGY,
                         !.events = @ \cup {<<"killed", i>>},
                         !.trace.agents[Len(w.trace.agents)].fight = "killed",
                         !.trace.agents[Len(w.trace.agents)].fought = DEAD_ENERGY]}
    ELSE {[w EXCEPT !.trace.agents[Len(w.trace.agents)].fought = w.energies[i]]}

\* one tournament, from its k-th draw on: <<index, energy>> of the best so
\* far, over the draws (each a slot) that are not excluded
RECURSIVE TournamentFrom(_, _, _, _, _)
TournamentFrom(e, excluded, draws, k, best) ==
    IF k > TOURNAMENT_DRAWS THEN best
    ELSE LET r == draws[k]
         IN  TournamentFrom(e, excluded, draws, k + 1,
                 IF r \notin excluded /\ e[r] > best[2] THEN <<r, e[r]>> ELSE best)

\* what a tournament can select, over all its draws
Tournaments(e, excluded) ==
    {TournamentFrom(e, excluded, draws, 1, <<0, NO_PARENT_ENERGY>>)
        : draws \in {s \in DrawSequences : \A k \in DOMAIN s : s[k] \in DOMAIN e}}

\* the bred rebirth of slot i from the parents p1 and p2, with jitter j
Bred(w, i, p1, p2, j) ==
    LET new_brain == Mutate(Crossover(w.brains[p1], w.brains[p2], MixDraw),
                            mutation_rate, SelDraw, DltDraw)
        born == [w EXCEPT !.brains[i] = new_brain,
                          !.colors[i] = w.colors[p1],
                          !.positions[i] = <<w.positions[p1][1] + Jitter(j[1]),
                                             w.positions[p1][2] + Jitter(j[2])>>,
                          !.energies[i] = OFFSPRING_ENERGY]
        charged1 == [born EXCEPT !.energies[p1] = @ - PARENT_COST]
    IN  [charged1 EXCEPT !.energies[p2] = @ - PARENT_COST,
                         !.events = @ \cup {<<"bred", i, p1, p2>>},
                         !.trace.agents[Len(w.trace.agents)].rebirth = "bred",
                         !.trace.agents[Len(w.trace.agents)].parents = <<p1, p2>>,
                         !.trace.agents[Len(w.trace.agents)].selected =
                             <<w.energies[p1], w.energies[p2]>>]

\* the fresh rebirth, were it to draw a tribe colour as Simulation::new does
FreshRecoloured(w, i, d) ==
    [w EXCEPT !.brains[i] = BrainNew(NewDraw),
              !.colors[i] = color_palette[Len(color_palette)],
              !.positions[i] = RandomPoint(d, width, height),
              !.energies[i] = REBORN_ENERGY,
              !.voices[i] = 0,
              !.events = @ \cup {<<"fresh", i>>},
              !.trace.agents[Len(w.trace.agents)].rebirth = "fresh"]

\* the rebirth of slot i as a fresh agent at the point drawn by d
Fresh(w, i, d) ==
    [w EXCEPT !.brains[i] = BrainNew(NewDraw),
              !.positions[i] = RandomPoint(d, width, height),
              !.energies[i] = REBORN_ENERGY,
              !.voices[i] = 0,
              !.events = @ \cup {<<"fresh", i>>},
              !.trace.agents[Len(w.trace.agents)].rebirth = "fresh"]

\* EVOLUTION (SEXUAL)
Evolved(w, i) ==
    IF w.energies[i] <= 0
    THEN UNION {
           UNION {
             IF t1[2] > reproduction_threshold /\ t2[2] > reproduction_threshold
             THEN {Bred(w, i, t1[1], t2[1], j) : j \in JitterDraws}
             ELSE {Fresh(w, i, d) : d \in RespawnDraws}
             : t2 \in Tournaments(w.energies, {i, t1[1]})}
           : t1 \in Tournaments(w.energies, {i})}
    ELSE {w}

\* one iteration of the agent loop, the controller returning o: the worlds it
\* can leave
UpdateAgent(w, i, o) ==
    LET s == Sense(w, i)
    IN  IF ProcessPanics(Inputs(w, i, s))
        THEN {[w EXCEPT !.brains[i] = ProcessPanicked(@, Inputs(w, i, s)),
                        !.aborted = TRUE]}
        ELSE {[w4 EXCEPT !.trace.agents[Len(w4.trace.agents)].after = Snapshot(w4)]
                : w4 \in UNION {
                    UNION {Evolved(w3, i) : w3 \in Fought(w2, i, s)}
                    : w2 \in Fed(Moved(w, i, s, o), i, s)}}

\* the agent loop, were it to run from the last slot down to the first
RECURSIVE AgentsFromLast(_, _, _)
AgentsFromLast(w, i, op) ==
    IF i >= VecLen(w.positions) \/ w.aborted THEN {w}
    ELSE UNION {AgentsFromLast(w2, i + 1, op)
                  : w2 \in UpdateAgent(w, VecLen(w.positions) - 1 - i,
                                       At(op, VecLen(w.positions) - i))}

RECURSIVE AgentsFrom(_, _, _)
AgentsFrom(w, i, op) ==
    IF i >= VecLen(w.positions) \/ w.aborted THEN {w}
    ELSE UNION {AgentsFrom(w2, i + 1, op) : w2 \in UpdateAgent(w, i, At(op, i + 1))}

\* Simulation::step: the worlds a call can leave
StepOutcomes ==
    UNION {AgentsFrom(PredatorsFrom(World, 0), 0, op) : op \in OutputPatterns}

\* ---- Simulation::new and the control surface

SimInit(channels) ==
    /\ width = WorldWidth
    /\ height = WorldHeight
    /\ positions = [k \in 0..(NAgents - 1) |->
                       RandomPoint(At(AgentDraws, k + 1), width, height)]
    /\ angles = [k \in 0..(NAgents - 1) |-> AngleDraw(k)]
    /\ energies = [k \in 0..(NAgents - 1) |-> STARTING_ENERGY]
    /\ brains = [k \in 0..(NAgents - 1) |-> BrainNew(NewDraw)]
    /\ colors = [k \in 0..(NAgents - 1) |-> color_palette[(k % 4) + 1]]
    /\ voices = [k \in 0..(NAgents - 1) |-> 0]
    /\ \E d \in PointDraws :
          food = [k \in 0..(NFood - 1) |-> RandomPoint(d, width, height)]
    /\ \E d \in PredatorDraws :
          predators = [k \in 0..(NPredators - 1) |-> RandomPoint(d, width, height)]
    /\ rocks = [k \in 0..(NRocks - 1) |->
                  <<Scaled(RockDraw(k)[1], width), Scaled(RockDraw(k)[2], height),
                    ROCK_MIN_RADIUS + Scaled(RockDraw(k)[3], ROCK_RADIUS_SPAN)>>]
    /\ mud = [k \in 0..(NMud - 1) |->
                  <<Scaled(MudDraw(k)[1], width), Scaled(MudDraw(k)[2], height),
                    MUD_MIN_RADIUS + Scaled(MudDraw(k)[3], MUD_RADIUS_SPAN)>>]
    /\ mutation_rate = BASE_MUTATION_RATE
    /\ predator_speed = PREDATOR_SPEED
    /\ reproduction_threshold = REPRODUCTION_THRESHOLD
    /\ sensing = channels
    /\ aborted = FALSE
    /\ calls = 0
    /\ ticks = 0
    /\ last_call = "new"
    /\ events = {}
    /\ before = energies
    /\ trace = World.trace
    /\ last_count = 0

SimIdle ==
    /\ width = 0 /\ height = 0
    /\ positions = <<>> /\ angles = <<>> /\ energies = <<>> /\ brains = <<>>
    /\ colors = <<>> /\ voices = <<>> /\ food = <<>> /\ predators = <<>>
    /\ rocks = <<>> /\ mud = <<>>
    /\ mutation_rate = BASE_MUTATION_RATE
    /\ predator_speed = PREDATOR_SPEED
    /\ reproduction_threshold = REPRODUCTION_THRESHOLD
    /\ sensing = SensingChannels
    /\ aborted = FALSE
    /\ calls = 0
    /\ ticks = 0
    /\ last_call = "none"
    /\ events = {}
    /\ before = <<>>
    /\ trace = World.trace
    /\ last_count = 0

\* a call is possible while the process has not aborted
Callable == ~aborted /\ calls < MaxCalls

set_mutation_rate ==
    /\ Callable
    /\ \E rate \in RateSamples : mutation_rate' = rate
    /\ calls' = calls + 1
    /\ last_call' = "set_mutation_rate"
    /\ UNCHANGED <<positions, angles, energies, brains, colors, voices, food, predators,
                   rocks, mud, width, height, predator_speed, reproduction_threshold,
                   sensing, aborted, ticks, events, before, trace, last_count, gridVars,
                   brainVars>>

set_predator_speed ==
    /\ Callable
    /\ \E speed \in SpeedSamples : predator_speed' = speed
    /\ calls' = calls + 1
    /\ last_call' = "set_predator_speed"
    /\ UNCHANGED <<positions, angles, energies, brains, colors, voices, food, predators,
                   rocks, mud, width, height, mutation_rate, reproduction_threshold,
                   sensing, aborted, ticks, events, before, trace, last_count, gridVars,
                   brainVars>>

set_reproduction_threshold ==
    /\ Callable
    /\ \E val \in ThresholdSamples : reproduction_threshold' = val
    /\ calls' = calls + 1
    /\ last_call' = "set_reproduction_threshold"
    /\ UNCHANGED <<positions, angles, energies, brains, colors, voices, food, predators,
                   rocks, mud, width, height, mutation_rate, predator_speed,
                   sensing, aborted, ticks, events, before, trace, last_count, gridVars,
                   brainVars>>

\* the food items set_food_count(count) can leave
RECURSIVE Grown(_, _)
Grown(f, count) ==
    IF VecLen(f) >= count THEN {f}
    ELSE UNION {Grown(Push(f, RandomPoint(d, width, height)), count) : d \in RespawnDraws}

SetFoodCount(f, count) ==
    IF count > VecLen(f) THEN Grown(f, count)
    ELSE IF count < VecLen(f) THEN {Truncate(f, count)}
    ELSE {f}

set_food_count ==
    /\ Callable
    /\ \E count \in FoodCounts :
          /\ food' \in SetFoodCount(food, count)
          /\ last_count' = count
    /\ calls' = calls + 1
    /\ last_call' = "set_food_count"
    /\ UNCHANGED <<positions, angles, energies, brains, colors, voices, predators,
                   rocks, mud, width, height, mutation_rate, predator_speed,
                   reproduction_threshold, sensing, aborted, ticks, events, before,
                   trace, gridVars, brainVars>>

\* resize, were the terrain scaled with the world
resizeScalingTerrain ==
    /\ Callable
    /\ \E size \in SizeSamples :
          /\ width' = size[1] /\ height' = size[2]
          /\ rocks' = [k \in DOMAIN rocks |->
                          <<(rocks[k][1] * size[1]) \div width,
                            (rocks[k][2] * size[2]) \div height, rocks[k][3]>>]
    /\ calls' = calls + 1
    /\ last_call' = "resize"
    /\ UNCHANGED <<positions, angles, energies, brains, colors, voices, food, predators,
                   mud, mutation_rate, predator_speed, reproduction_threshold,
                   sensing, aborted, ticks, events, before, trace, last_count, gridVars,
                   brainVars>>

resize ==
    /\ Callable
    /\ \E size \in SizeSamples : width' = size[1] /\ height' = size[2]
    /\ calls' = calls + 1
    /\ last_call' = "resize"
    /\ UNCHANGED <<positions, angles, energies, brains, colors, voices, food, predators,
                   rocks, mud, mutation_rate, predator_speed, reproduction_threshold,
                   sensing, aborted, ticks, events, before, trace, last_count, gridVars,
                   brainVars>>

\* Simulation::step, the whole call: a call that panics in Brain::process
\* leaves what it had written and aborts the process
step ==
    /\ Callable
    /\ ticks < MaxTicks
    /\ ticks' = ticks + 1
    /\ \E w \in StepOutcomes :
          /\ positions' = w.positions
          /\ angles' = w.angles
          /\ energies' = w.energies
          /\ brains' = w.brains
          /\ colors' = w.colors
          /\ voices' = w.voices
          /\ food' = w.food
          /\ predators' = w.predators
          /\ aborted' = w.aborted
          /\ events' = w.events
          /\ trace' = w.trace
    /\ before' = energies
    /\ calls' = calls + 1
    /\ last_call' = "step"
    /\ UNCHANGED <<rocks, mud, width, height, mutation_rate, predator_speed,
                   reproduction_threshold, sensing, last_count, gridVars, brainVars>>

SimNext ==
    \/ step
    \/ set_mutation_rate
    \/ set_predator_speed
    \/ set_reproduction_threshold
    \/ set_food_count
    \/ resize

-----------------------------------------------------------------------------
(* Specifications                                                          *)

\* the Simulation as built: step hands Brain::process the 11 channels of
\* lib.rs:256-266
Init == SimInit(SensingChannels) /\ GridIdle /\ BrainIdle
Next == SimNext
Spec == Init /\ [][Next]_vars

\* the Simulation with the sensing vector and the controller's input arity
\* in agreement, which is what lets a step() reach the code after line 268
InitAgreed == SimInit(AgreedChannels) /\ GridIdle /\ BrainIdle
SpecAgreed == InitAgreed /\ [][Next]_vars

\* a SpatialGrid under any calls of its methods
InitGrid == GridInit /\ BrainIdle /\ SimIdle
SpecGrid == InitGrid /\ [][GridNext]_vars

\* a Brain under any calls of crossover and mutate
InitBrain == BrainInit /\ GridIdle /\ SimIdle
SpecBrain == InitBrain /\ [][BrainNext]_vars

-----------------------------------------------------------------------------
(* Properties of Simulation::step                                          *)

\* a state a call of step() has just left, the call having run to its end
StepCompleted == last_call = "step" /\ ~aborted

\* the slots of the parallel arrays
Slots == DOMAIN energies

\* C1: the sensing vector step() hands to Brain::process has as many elements
\* as the controller reads, and a step() on a constructed Simulation runs to
\* its end without aborting.
C1_StepRunsToCompletion ==
    last_call = "step" =>
        /\ ~aborted
        /\ \A i \in Slots : Len(brains[i].last_inputs) = INPUTS

C6_StepKeepsEntities ==
    [][ticks' # ticks =>
          /\ DOMAIN positions' = DOMAIN positions
          /\ DOMAIN angles' = DOMAIN positions
          /\ DOMAIN energies' = DOMAIN positions
          /\ DOMAIN brains' = DOMAIN positions
          /\ DOMAIN colors' = DOMAIN positions
          /\ DOMAIN voices' = DOMAIN positions
          /\ DOMAIN food' = DOMAIN food
          /\ DOMAIN predators' = DOMAIN predators]_vars

\* a completed step() in which food was eaten, an agent was killed, a slot was
\* reborn from two parents and a slot was reborn fresh
C6_Witness ==
    /\ StepCompleted
    /\ \E e \in events : e[1] = "ate"
    /\ \E e \in events : e[1] = "killed"
    /\ \E e \in events : e[1] = "bred"
    /\ \E e \in events : e[1] = "fresh"
    /\ VecLen(positions) = NAgents

-----------------------------------------------------------------------------
(* Properties of SpatialGrid                                               *)

Range(s) == {s[k] : k \in DOMAIN s}

\* the cell of a coordinate, before any cast
Cell(x) == FloorDiv(x, cell_size)

\* the cell of (x, y) lies in [0, cols) x [0, rows)
InGrid(x, y) == Cell(x) >= 0 /\ Cell(x) < cols /\ Cell(y) >= 0 /\ Cell(y) < rows

\* the bucket of (qx, qy) lies in the 3x3 neighbourhood of the bucket of (x, y)
NearCell(x, y, qx, qy) == Abs(Cell(qx) - Cell(x)) <= 1 /\ Abs(Cell(qy) - Cell(y)) <= 1

\* (qx, qy) is more than two full cells away from (x, y) along an axis
FarPoint(x, y, qx, qy) == Abs(qx - x) > 2 * cell_size \/ Abs(qy - y) > 2 * cell_size

\* C7: an insert whose cell lies outside [0,cols) x [0,rows), negative
\* coordinates included, leaves every bucket unchanged.
C7_OutsideInsertDropped ==
    [][(grid_call'.op = "insert" /\ ~InGrid(grid_call'.x, grid_call'.y))
          => cells' = cells]_vars

\* C8 as stated: for all insert coordinates, a query whose bucket is in the 3x3
\* neighbourhood of the insert's returns the id, and a query more than two
\* cells away from every insert of an id does not return it.
C8_QueryAllCoordinates ==
    /\ \A e \in grid_log, qx \in GridXs, qy \in GridYs :
          NearCell(e[1], e[2], qx, qy) => e[3] \in Range(Query(cells, qx, qy))
    /\ \A id \in GridIds, qx \in GridXs, qy \in GridYs :
          (\A e \in grid_log : e[3] = id => FarPoint(e[1], e[2], qx, qy))
             => id \notin Range(Query(cells, qx, qy))

\* C8 amended: the same for inserts whose cell lies inside the grid: a near
\* query returns the id, and a query more than two cells away from every
\* insert of an id, all of them inside the grid, does not return it.
C8_QueryInGrid ==
    /\ \A e \in grid_log, qx \in GridXs, qy \in GridYs :
          (InGrid(e[1], e[2]) /\ NearCell(e[1], e[2], qx, qy))
             => e[3] \in Range(Query(cells, qx, qy))
    /\ \A id \in GridIds, qx \in GridXs, qy \in GridYs :
          (\A e \in grid_log :
              e[3] = id => (InGrid(e[1], e[2]) /\ FarPoint(e[1], e[2], qx, qy)))
             => id \notin Range(Query(cells, qx, qy))

\* an id inserted inside the grid is returned by a query from a neighbouring
\* bucket and not by a query more than two cells away
C8_Witness ==
    \E e \in grid_log :
       /\ InGrid(e[1], e[2])
       /\ \E qx \in GridXs, qy \in GridYs :
             /\ NearCell(e[1], e[2], qx, qy)
             /\ Cell(qx) # Cell(e[1])
             /\ e[3] \in Range(Query(cells, qx, qy))
       /\ \E qx \in GridXs, qy \in GridYs :
             /\ FarPoint(e[1], e[2], qx, qy)
             /\ e[3] \notin Range(Query(cells, qx, qy))

\* C9: after clear(), whatever was inserted before, every query returns the
\* empty sequence and the number of buckets is cols * rows as before; a clear()
\* that follows a clear() changes no bucket.
C9_ClearTotalIdempotent ==
    [][grid_call'.op = "clear" =>
          /\ \A qx \in GridXs, qy \in GridYs : Query(cells', qx, qy) = <<>>
          /\ DOMAIN cells' = DOMAIN cells
          /\ DOMAIN cells' = 0..(cols * rows - 1)
          /\ ClearCells(cells') = cells'
          /\ (grid_call.op = "clear" => cells' = cells)]_vars

\* a clear() that was called with ids in the buckets
C9_Witness ==
    /\ grid_call.op = "clear"
    /\ grid_call.held > 0
    /\ \A qx \in GridXs, qy \in GridYs : Query(cells, qx, qy) = <<>>

-----------------------------------------------------------------------------
(* Properties of Brain                                                     *)

\* the weights and biases of a Brain
Genome(b) == <<b.weights_input, b.weights_output, b.biases>>

\* C10: mutate(0) returns a controller whose every weight and bias equals the
\* original's, whichever elements the draws select, and leaves the original
\* as it was.
C10_MutateZeroIsNoOp ==
    [][(brain_call'.op = "mutate" /\ brain_call'.rate = 0)
          => (Genome(child') = Genome(brain) /\ brain' = brain)]_vars

\* a mutate(0) whose draws selected elements for a non-zero perturbation
C10_Witness ==
    /\ brain_call.op = "mutate"
    /\ brain_call.rate = 0
    /\ \E k \in 1..Len(brain.biases) :
          /\ At(brain_call.sel, k) < MUTATION_CHANCE
          /\ Signed(At(brain_call.dlt, k)) # 0
    /\ Genome(child) = Genome(brain)

(***************************************************************************)
(* Brain::crossover                                                        *)
(***************************************************************************)

\* the partner of the crossover just made
Partner == BrainNew(brain_call.dlt)

\* every element of v is the element at the same place of a or of b
ElementwiseFrom(v, a, b) == \A k \in DOMAIN v : v[k] = a[k] \/ v[k] = b[k]

\* C11: every weight and bias of A.crossover(B) is the element at the same
\* index of A or of B, and the child's three vectors have the parents'
\* lengths: 13*8, 8*3 and 8+3
C11_CrossoverElementwise ==
    brain_call.op = "crossover" =>
        /\ ElementwiseFrom(child.weights_input, brain.weights_input,
                           Partner.weights_input)
        /\ ElementwiseFrom(child.weights_output, brain.weights_output,
                           Partner.weights_output)
        /\ ElementwiseFrom(child.biases, brain.biases, Partner.biases)
        /\ Len(child.weights_input) = INPUTS * HIDDEN
        /\ Len(child.weights_input) = Len(brain.weights_input)
        /\ Len(child.weights_output) = HIDDEN * OUTPUTS
        /\ Len(child.weights_output) = Len(brain.weights_output)
        /\ Len(child.biases) = HIDDEN + OUTPUTS
        /\ Len(child.biases) = Len(brain.biases)

\* a crossover of two different parents whose child took one weight from
\* each of them: the choice is made per element
C11_Witness ==
    /\ brain_call.op = "crossover"
    /\ \E j, k \in DOMAIN child.weights_input :
          /\ child.weights_input[j] = brain.weights_input[j]
          /\ child.weights_input[j] # Partner.weights_input[j]
          /\ child.weights_input[k] = Partner.weights_input[k]
          /\ child.weights_input[k] # brain.weights_input[k]

(***************************************************************************)
(* Simulation::step, iteration by iteration                                *)
(***************************************************************************)

\* the iterations of the agent loop of the last step()
AgentUpdates == Range(trace.agents)

\* p lies in [0,width] x [0,height]
InWorld(p) == p[1] >= 0 /\ p[1] <= width /\ p[2] >= 0 /\ p[2] <= height

\* the items of `points` nearer than r to p
Reach(points, p, r) ==
    {k \in DOMAIN points : Within(points[k][1] - p[1], points[k][2] - p[2], r)}

\* k is an item of `points` that no other item is nearer to p than
NearestTo(points, p, k) ==
    /\ k \in DOMAIN points
    /\ \A m \in DOMAIN points :
          ~Within(points[m][1] - p[1], points[m][2] - p[2],
                  Hypot(points[k][1] - p[1], points[k][2] - p[2]))

\* the food an update leaves: item k is somewhere in the world, and every
\* other item is where it was
Relocated(u, k) ==
    /\ DOMAIN u.after.food = DOMAIN u.seen.food
    /\ InWorld(u.after.food[k])
    /\ \A m \in DOMAIN u.seen.food \ {k} : u.after.food[m] = u.seen.food[m]

\* the update u of an agent that sensed food within EAT_RADIUS fed it: its
\* energy after metabolism and feeding, and the nearest item relocated
Feeds(u, k) ==
    /\ NearestTo(u.seen.food, u.seen.positions[u.slot], k)
    /\ k \in Reach(u.seen.food, u.seen.positions[u.slot], EAT_RADIUS)
    /\ u.fed = Min(u.seen.energies[u.slot] - u.cost + FOOD_ENERGY, ENERGY_CAP)
    /\ Relocated(u, k)

Wins(u, k) ==
    /\ u.fight = "won"
    /\ u.fought = u.fed - BATTLE_COST
    /\ u.rebirth = "none"
    /\ u.after.energies[u.slot] = u.fought
    /\ InWorld(u.after.predators[k])

\* the update u took the agent for prey: it is marked dead and its slot is
\* reborn before the update ends
Dies(u) ==
    /\ u.fight = "killed"
    /\ u.fought = DEAD_ENERGY
    /\ u.rebirth \in {"bred", "fresh"}

\* the updates of the last step() in which the agent sensed its nearest
\* predator within PREDATOR_KILL_RADIUS
Battles ==
    {u \in AgentUpdates :
        Reach(u.seen.predators, u.seen.positions[u.slot], PREDATOR_KILL_RADIUS) # {}}

FoodResized ==
    /\ VecLen(food') = last_count'
    /\ \A k \in DOMAIN food' :
          IF k \in DOMAIN food THEN food'[k] = food[k] ELSE InWorld(food'[k])

\* C14: set_food_count(n) leaves exactly n food items, the existing items
\* (the first n when shrinking) keeping index and position and the appended
\* ones lying in the world; agents, predators, rocks and mud are untouched;
\* and a following step() completes, for every n including 0
C14_SetFoodCount ==
    [][/\ (last_call' = "set_food_count" /\ calls' # calls) =>
              /\ FoodResized
              /\ UNCHANGED <<positions, angles, energies, brains, colors, voices,
                             predators, rocks, mud>>
       /\ (last_call = "set_food_count" /\ ticks' # ticks) => ~aborted'
      ]_vars

(***************************************************************************)
(* EVOLUTION (SEXUAL)                                                      *)
(***************************************************************************)

\* the updates of the last step() that ended in a bred rebirth
BredUpdates == {u \in AgentUpdates : u.rebirth = "bred"}

LivingAtStart == {i \in DOMAIN trace.start.energies : trace.start.energies[i] > 0}

\* C16: every step() begins by rebuilding the spatial index, so that during
\* the tick the index holds exactly the living agents, each at the position it
\* had when the tick began
C16_IndexRebuiltEachStep ==
    last_call = "step" =>
        /\ Held(cells) = Cardinality(LivingAtStart)
        /\ \A i \in LivingAtStart :
              i \in Range(Query(cells, trace.start.positions[i][1],
                                trace.start.positions[i][2]))

(***************************************************************************)
(* The order of the updates within a step()                                *)
(***************************************************************************)

\* where the predator phase of the last step() left predator p
PostPhase(p) == trace.predators[p + 1].to

\* the loops of the last step() ran over every predator and every slot, the
\* agent loop by ascending slot index
InLoopOrder ==
    /\ Len(trace.predators) = VecLen(predators)
    /\ Len(trace.agents) = VecLen(positions)
    /\ \A k \in DOMAIN trace.agents : trace.agents[k].slot = k - 1

\* what the update of slot i sensed of the other agents: every slot j < i as
\* its own update left it (position and voice) and as the updates before i
\* left its energy, every slot j > i as the step() found it
SeesAgentsInOrder(i) ==
    LET u == trace.agents[i + 1]
    IN  \A j \in DOMAIN u.seen.positions :
            IF j < i
            THEN /\ u.seen.positions[j] = trace.agents[j + 1].after.positions[j]
                 /\ u.seen.voices[j] = trace.agents[j + 1].after.voices[j]
                 /\ u.seen.energies[j] = trace.agents[i].after.energies[j]
            ELSE /\ u.seen.positions[j] = trace.start.positions[j]
                 /\ u.seen.voices[j] = trace.start.voices[j]

PredatorUpdates == Range(trace.predators)

\* the square of the distance from the predator of r to slot j, as the
\* step() found them
FromPredator(r, j) ==
    LET dx == trace.start.positions[j][1] - r.from[1]
        dy == trace.start.positions[j][2] - r.from[2]
    IN  dx * dx + dy * dy

\* the predator of r pursued a living agent that no living agent was nearer
\* than, by predator_speed along the line to it; with no living agent, or
\* with that agent where the predator is, its pursuit displacement is zero
PursuesNearestLiving(r) ==
    IF LivingAtStart = {} THEN r.pursuit = <<0, 0>>
    ELSE \E j \in LivingAtStart :
            /\ \A m \in LivingAtStart : FromPredator(r, m) >= FromPredator(r, j)
            /\ LET dx == trace.start.positions[j][1] - r.from[1]
                   dy == trace.start.positions[j][2] - r.from[2]
               IN  IF dx = 0 /\ dy = 0 THEN r.pursuit = <<0, 0>>
                   ELSE r.pursuit = <<Along(dx, Hypot(dx, dy), predator_speed),
                                      Along(dy, Hypot(dx, dy), predator_speed)>>

\* C18 as stated: each predator pursues only the nearest agent with energy
\* > 0; with no agent alive, or the target where the predator is, the pursuit
\* displacement is exactly zero, so a predator that no other predator pushes
\* stays where it is
C18_IdlePredatorStays ==
    last_call = "step" =>
        \A r \in PredatorUpdates :
            /\ PursuesNearestLiving(r)
            /\ (r.pursuit = <<0, 0>> /\ r.push = <<0, 0>>) => r.to = r.from

\* C18 amended: such a predator stays where it is if it is inside the world,
\* and is otherwise put on the nearest wall by the clamp that ends its update
C18_PredatorPursuit ==
    last_call = "step" =>
        \A r \in PredatorUpdates :
            /\ PursuesNearestLiving(r)
            /\ (r.pursuit = <<0, 0>> /\ r.push = <<0, 0>>) =>
                  r.to = <<Clamp(r.from[1], width), Clamp(r.from[2], height)>>

\* a step() that began with a dead agent nearer to a predator than every
\* living one, the predator moving towards a living one
C18_Witness ==
    /\ last_call = "step"
    /\ \E r \in PredatorUpdates :
          /\ r.pursuit # <<0, 0>>
          /\ \E d \in DOMAIN trace.start.energies \ LivingAtStart :
                \A m \in LivingAtStart : FromPredator(r, d) < FromPredator(r, m)

(***************************************************************************)
(* Rocks                                                                   *)
(***************************************************************************)

\* a movement step from `from` by way of the candidate position to `to`
\* treats the rocks as hard obstacles: a candidate inside a rock leaves the
\* entity where it was, and an entity outside every rock is not taken into one
RocksBlock(from, candidate, to) ==
    /\ InsideAny(rocks, candidate[1], candidate[2]) => to = from
    /\ ~InsideAny(rocks, from[1], from[2]) => ~InsideAny(rocks, to[1], to[2])

\* C19: a movement step of an agent or of a predator whose candidate position
\* lies inside a rock leaves the entity at its old position, and no movement
\* step, its final clamp to the world bounds included, takes an entity from a
\* position outside every rock to a position inside a rock
C19_RocksAreHardObstacles ==
    last_call = "step" =>
        /\ \A r \in PredatorUpdates : RocksBlock(r.from, r.candidate, r.to)
        /\ \A u \in AgentUpdates :
              RocksBlock(u.seen.positions[u.slot], u.candidate, u.to)

(***************************************************************************)
(* Index-narrowed search against the full scan                             *)
(***************************************************************************)

\* the inserted entities within the distance r of (qx, qy), by a scan of all
\* of them
Scan(qx, qy, r) ==
    {e \in grid_log : (e[1] - qx) * (e[1] - qx) + (e[2] - qy) * (e[2] - qy) <= r * r}

\* the same by the index: the entities query returns, filtered by distance
Narrowed(qx, qy, r) == {e \in Scan(qx, qy, r) : e[3] \in Range(Query(cells, qx, qy))}

\* the entities of a set nearest to (qx, qy)
NearestOf(found, qx, qy) ==
    {e \in found : \A f \in found :
        (e[1] - qx) * (e[1] - qx) + (e[2] - qy) * (e[2] - qy)
            <= (f[1] - qx) * (f[1] - qx) + (f[2] - qy) * (f[2] - qy)}

\* C20: when the sensing radius R is at most cellSize, for every in-range
\* query point q the query returns the id of every inserted in-range p with
\* distance(p, q) <= R, so, the inserted points being in range, the query
\* filtered by exact distance finds the same entities within R, and the same
\* nearest one, as a scan of all inserted entities
C20_IndexMatchesScan ==
    \A qx \in GridXs, qy \in GridYs, r \in 1..cell_size :
        InGrid(qx, qy) =>
            /\ \A e \in Scan(qx, qy, r) :
                  InGrid(e[1], e[2]) => e[3] \in Range(Query(cells, qx, qy))
            /\ (\A e \in grid_log : InGrid(e[1], e[2])) =>
                  /\ Narrowed(qx, qy, r) = Scan(qx, qy, r)
                  /\ NearestOf(Narrowed(qx, qy, r), qx, qy)
                        = NearestOf(Scan(qx, qy, r), qx, qy)

\* two entities inserted in range, and a query from the bucket next to the
\* one's, at the distance cellSize from it, that finds it and not the other,
\* which is farther
C20_Witness ==
    /\ \A e \in grid_log : InGrid(e[1], e[2])
    /\ \E e, f \in grid_log, qx \in GridXs, qy \in GridYs :
          /\ InGrid(qx, qy)
          /\ Cell(qx) # Cell(e[1])
          /\ e \in Narrowed(qx, qy, cell_size)
          /\ f \notin Scan(qx, qy, cell_size)

(***************************************************************************)
(* Terrain                                                                 *)
(***************************************************************************)

\* the rocks and the mud patches as Simulation::new pushed them
BuiltRocks ==
    [k \in 0..(NRocks - 1) |->
        <<Scaled(RockDraw(k)[1], WorldWidth), Scaled(RockDraw(k)[2], WorldHeight),
          ROCK_MIN_RADIUS + Scaled(RockDraw(k)[3], ROCK_RADIUS_SPAN)>>]
BuiltMud ==
    [k \in 0..(NMud - 1) |->
        <<Scaled(MudDraw(k)[1], WorldWidth), Scaled(MudDraw(k)[2], WorldHeight),
          MUD_MIN_RADIUS + Scaled(MudDraw(k)[3], MUD_RADIUS_SPAN)>>]

\* C21: after any sequence of step(), resize(), set_food_count() and the
\* other setters, the rocks and the mud patches hold the positions and radii
\* they had right after construction
C21_TerrainImmutable == rocks = BuiltRocks /\ mud = BuiltMud

\* the world has been resized and has then completed a step() in which a
\* rock blocked a move and an agent was slowed by mud
C21_Witness ==
    /\ StepCompleted
    /\ width # WorldWidth \/ height # WorldHeight
    /\ \E e \in events : e[1] = "blocked"
    /\ \E u \in AgentUpdates :
          InsideAny(mud, u.seen.positions[u.slot][1], u.seen.positions[u.slot][2])
    /\ rocks = BuiltRocks /\ mud = BuiltMud /\ BuiltRocks # <<>> /\ BuiltMud # <<>>

(***************************************************************************)
(* Tribes                                                                  *)
(***************************************************************************)

\* Simulation::get_tribe_stats on the colours tribe: the number of slots of
\* each colour of the palette, in its order
TribeStats(tribe) ==
    [k \in 1..Len(color_palette) |->
        Cardinality({i \in DOMAIN tribe : tribe[i] = color_palette[k]})]

\* the sum of the counts
RECURSIVE StatsSumFrom(_, _)
StatsSumFrom(stats, k) ==
    IF k > Len(stats) THEN 0 ELSE stats[k] + StatsSumFrom(stats, k + 1)

\* C22: the four counts of get_tribe_stats always sum to the number of
\* agents, and a tribe whose count is 0 has count 0 after every later call,
\* step() included: a slot's colour changes only to the colour of parent1
C22_ExtinctionPermanent ==
    /\ [](StatsSumFrom(TribeStats(colors), 1) = VecLen(colors))
    /\ [][\A k \in DOMAIN TribeStats(colors) :
             TribeStats(colors)[k] = 0 => TribeStats(colors')[k] = 0]_vars

\* a tribe that the world was built with had no slot left when the last
\* step() began, and has none after it, a step() with a bred and a fresh
\* rebirth
C22_Witness ==
    /\ StepCompleted
    /\ \E u, v \in AgentUpdates : u.rebirth = "bred" /\ v.rebirth = "fresh"
    /\ \E k \in DOMAIN color_palette :
          /\ k <= NAgents
          /\ TribeStats(trace.start.colors)[k] = 0
          /\ TribeStats(colors)[k] = 0

====
